---- MODULE Spec2Model ----
(***************************************************************************)
(* A model of the opensea-stream client: the three tasks spawned by        *)
(* Client::new (writer, reader, heartbeat), the two bounded mpsc channels  *)
(* that connect them to the caller, the caller's subscribe / read_event    *)
(* calls, and the serde decoding that read_event runs on every inbound     *)
(* text message.                                                           *)
(***************************************************************************)
EXTENDS Integers, Sequences, FiniteSets, TLC

(***************************************************************************)
(* Bounds of the model and constants of the program.                       *)
(***************************************************************************)
\* frames the reader forwards to the inbound channel in one run
MaxRecv == 2
\* frames (heartbeats and joins) enqueued on the outbound channel in one run
MaxOut == 2
\* mpsc::channel::<PhoenixMessage>(4)
SendCap == 4
\* mpsc::channel::<String>(1024)
ReadCap == 1024

(***************************************************************************)
(* protocol.rs: Collection and its Display.                                *)
(***************************************************************************)
Slugs == {"neon-vortex-1"}

\* enum Collection { Collection(String), All }
Collection == [tag : {"Collection"}, slug : Slugs] \cup {[tag |-> "All", slug |-> ""]}

CollectionAll == [tag |-> "All", slug |-> ""]

\* a variant of Collection_fmt that leaves the slug out of the topic
Collection_fmt_any(c) == "collection:*"

\* impl Display for Collection
Collection_fmt(c) ==
    "collection:" \o (IF c.tag = "Collection" THEN c.slug ELSE "*")

(***************************************************************************)
(* client.rs: PhoenixMessage and its Display.                              *)
(***************************************************************************)
Heartbeat == [tag |-> "Heartbeat", collection |-> CollectionAll]

Subscribe(c) == [tag |-> "Subscribe", collection |-> c]

\* enum PhoenixMessage { Heartbeat, Subscribe(Collection) }
PhoenixMessage == {Heartbeat} \cup {Subscribe(c) : c \in Collection}

\* impl Display for PhoenixMessage: the JSON object the text spells
PhoenixMessage_fmt(m) ==
    IF m.tag = "Heartbeat"
    THEN [topic |-> "phoenix", event |-> "heartbeat", payload |-> "{}", ref |-> 0]
    ELSE [topic |-> Collection_fmt(m.collection), event |-> "phx_join",
          payload |-> "{}", ref |-> 0]

\* ws_write.send(Message::binary(payload)): the frame put on the transport
WsFrame(m) == [type |-> "Binary", payload |-> PhoenixMessage_fmt(m)]

(***************************************************************************)
(* schema.rs: Chain, its FromStr and its Display.                          *)
(***************************************************************************)
Chain == {"Avalanche", "Base", "Bsc", "Ethereum", "Optimism", "Arbitrum",
          "ArbitrumNova", "Polygon", "Klaytn", "Solana", "Goerli", "Mumbai",
          "Baobab", "Zora"}

\* impl FromStr for Chain: the arms of the match, wire string to variant
Chain_from_str_arms ==
    {<<"avalanche", "Avalanche">>, <<"base", "Base">>, <<"bsc", "Bsc">>,
     <<"ethereum", "Ethereum">>, <<"optimism", "Optimism">>,
     <<"arbitrum", "Arbitrum">>, <<"arbitrum_nova", "ArbitrumNova">>,
     <<"matic", "Polygon">>, <<"klaytn", "Klaytn">>, <<"solana", "Solana">>,
     <<"mumbai", "Mumbai">>, <<"baobab", "Baobab">>, <<"zora", "Zora">>}

\* the arm of a match that takes s: the variant, or "Err" for the `_` arm
MatchArm(arms, s) ==
    LET hit == {a \in arms : a[1] = s}
    IN  IF hit = {} THEN "Err" ELSE (CHOOSE a \in hit : TRUE)[2]

\* Chain::from_str; "Err" is Err(())
Chain_from_str(s) == MatchArm(Chain_from_str_arms, s)

\* impl fmt::Display for Chain: the arms of the match, variant to text
Chain_fmt_arms ==
    {<<"Avalanche", "avalanche">>, <<"Base", "base">>, <<"Bsc", "bsc">>,
     <<"Ethereum", "ethereum">>, <<"Optimism", "optimism">>,
     <<"Arbitrum", "arbitrum">>, <<"ArbitrumNova", "arbitrum_nova">>,
     <<"Polygon", "matic">>, <<"Klaytn", "klaytn">>, <<"Solana", "solana">>,
     <<"Mumbai", "mumbai">>, <<"Baobab", "baobab">>, <<"Goerli", "goerli">>,
     <<"Zora", "zora">>}

\* Chain's Display text
Chain_fmt(c) == MatchArm(Chain_fmt_arms, c)

\* #[derive(Deserialize)] on chain::Chain (rename_all = "lowercase" plus the
\* two renames): wire string to variant
Chain_deserialize_arms ==
    {<<"avalanche", "Avalanche">>, <<"base", "Base">>, <<"bsc", "Bsc">>,
     <<"ethereum", "Ethereum">>, <<"optimism", "Optimism">>,
     <<"arbitrum", "Arbitrum">>, <<"arbitrum_nova", "ArbitrumNova">>,
     <<"matic", "Polygon">>, <<"klaytn", "Klaytn">>, <<"solana", "Solana">>,
     <<"goerli", "Goerli">>, <<"mumbai", "Mumbai">>, <<"baobab", "Baobab">>,
     <<"zora", "Zora">>}

\* Chain's derived Deserialize; "Err" is the unknown-variant error
Chain_deserialize(s) == MatchArm(Chain_deserialize_arms, s)

(***************************************************************************)
(* Results of a decoding step: Ok(value), Err(_) or a panic (an unwrap on  *)
(* None / Err inside the decoder).                                         *)
(***************************************************************************)
\* the placeholder where a result carries no value
Nothing == [nothing |-> TRUE]

Ok(v) == [tag |-> "Ok", value |-> v]
Err == [tag |-> "Err", value |-> Nothing]
Panic == [tag |-> "Panic", value |-> Nothing]

(***************************************************************************)
(* schema.rs: NftId.  The nft_id string is held as the sequence of its     *)
(* '/'-separated segments; <<>> stands for a null / absent nft_id.         *)
(***************************************************************************)
ValidAddress == {"0x978c92725bb4f87c1da3ba2e8b7c11a24e6aa0a5"}

\* Address::from_str
Address_from_str(s) == IF s \in ValidAddress THEN s ELSE "Err"

RECURSIVE JoinSlash(_)
JoinSlash(segs) ==
    IF Len(segs) = 1 THEN Head(segs)
    ELSE Head(segs) \o "/" \o JoinSlash(Tail(segs))

\* s.splitn(3, '/'): at most three parts, the third holding the rest
SplitN3(segs) ==
    IF Len(segs) <= 3 THEN segs
    ELSE <<segs[1], segs[2], JoinSlash(SubSeq(segs, 3, Len(segs)))>>

\* impl Deserialize for NftId, from `let network = ...` on: parts.next() three
\* times, the third with unwrap()
NftId_from_parts(parts) ==
    IF Chain_from_str(parts[1]) = "Err" THEN Err
    ELSE IF Len(parts) < 2 THEN Err
    ELSE IF Address_from_str(parts[2]) = "Err" THEN Err
    ELSE IF Len(parts) < 3 THEN Panic
    ELSE Ok([network |-> Chain_from_str(parts[1]),
             address |-> Address_from_str(parts[2]),
             id |-> parts[3]])

\* impl Serialize for NftId: format!("{}/{:?}/{}", network, address, id)
NftId_serialize(n) == <<Chain_fmt(n.network), n.address, n.id>>

\* impl Deserialize for NftId
NftId_deserialize(segs) == NftId_from_parts(SplitN3(segs))

(***************************************************************************)
(* schema.rs: timestamp_to_date.  A JSON value offered to the codec is     *)
(* [shape, secs]: a string of decimal digits ("str_epoch"), an RFC-3339    *)
(* string ("str_rfc3339"), any other string ("str_other"), or a JSON       *)
(* number ("number"); secs is the instant the value denotes.               *)
(***************************************************************************)
\* largest |seconds| NaiveDateTime::from_timestamp_opt accepts, scaled down
MaxTimestamp == 3

TimeShapes == {"str_epoch", "str_rfc3339", "str_other", "number"}

TimeValue == [shape : TimeShapes, secs : 0..(MaxTimestamp + 1)]

\* timestamp_to_date::deserialize: the untagged enum tries Str(String) first,
\* so every JSON string is taken as epoch seconds and parsed with unwrap()
timestamp_to_date_deserialize(t) ==
    IF t.shape \in {"str_epoch", "str_rfc3339", "str_other"}
    THEN IF t.shape # "str_epoch" THEN Panic
         ELSE IF t.secs > MaxTimestamp THEN Panic
         ELSE Ok(t.secs)
    ELSE Err

(***************************************************************************)
(* schema.rs: Payload, the enum tagged by event_type, and StreamEvent.     *)
(***************************************************************************)
\* the event_type wire strings of Payload (rename_all = "snake_case")
EventTypes == {"item_listed", "item_sold", "item_transferred",
               "item_metadata_updated", "item_cancelled", "item_received_offer",
               "item_received_bid", "collection_offer", "trait_offer",
               "order_invalidate", "order_revalidate"}

\* enum Payload: event_type wire string to variant
Payload_arms ==
    {<<"item_listed", "ItemListed">>, <<"item_sold", "ItemSold">>,
     <<"item_transferred", "ItemTransferred">>,
     <<"item_metadata_updated", "ItemMetadataUpdated">>,
     <<"item_cancelled", "ItemCancelled">>,
     <<"item_received_offer", "ItemReceivedOffer">>,
     <<"item_received_bid", "ItemReceivedBid">>,
     <<"collection_offer", "CollectionOffer">>, <<"trait_offer", "TraitOffer">>,
     <<"order_invalidate", "OrderInvalidate">>,
     <<"order_revalidate", "OrderRevalidate">>}

\* the variant of Payload an event_type selects; "Err" is the unknown-variant error
PayloadVariant(t) == MatchArm(Payload_arms, t)

\* protocol.rs: enum Event, the variants it declares
Event == {"ItemListed", "ItemSold", "ItemTransferred", "ItemMetadataUpdated",
          "ItemCancelled", "ItemReceivedOffer", "ItemReceivedBid",
          "CollectionOffer"}

\* impl From<Payload> for Event: the arms of the match, Payload variant to the
\* Event path the arm names
Event_from_arms ==
    {<<"ItemListed", "ItemListed">>, <<"ItemSold", "ItemSold">>,
     <<"ItemTransferred", "ItemTransferred">>,
     <<"ItemMetadataUpdated", "ItemMetadataUpdated">>,
     <<"ItemCancelled", "ItemCancelled">>,
     <<"ItemReceivedOffer", "ItemReceivedOffer">>,
     <<"ItemReceivedBid", "ItemReceivedBid">>,
     <<"CollectionOffer", "CollectionOffer">>, <<"TraitOffer", "TraitOffer">>,
     <<"OrderInvalidate", "OrderInvalidate">>,
     <<"OrderRevalidate", "OrderRevalidate">>}

\* Event::from(payload), by the variant of the payload
Event_from(v) == MatchArm(Event_from_arms, v)

\* the payload records that hold an `item: Item` field
HasItem == EventTypes \ {"collection_offer", "trait_offer"}

\* the payload records that hold a `protocol_data: ProtocolData` field
HasProtocolData == {"item_listed", "collection_offer", "trait_offer"}

\* the fields of each payload record that are not Option<_> and have no default
Payload_required_arms ==
    {<<"item_listed",
       {"collection", "item", "event_timestamp", "base_price", "expiration_date",
        "is_private", "listing_date", "maker", "order_hash", "payment_token",
        "protocol_data"}>>,
     <<"item_sold",
       {"collection", "item", "closing_date", "event_timestamp", "is_private",
        "maker", "order_hash", "payment_token", "quantity", "sale_price",
        "taker", "transaction"}>>,
     <<"item_transferred",
       {"collection", "event_timestamp", "from_account", "item", "to_account"}>>,
     <<"item_metadata_updated", {"collection", "item"}>>,
     <<"item_cancelled",
       {"base_price", "collection", "event_timestamp", "is_private", "item",
        "order_hash", "payment_token", "quantity"}>>,
     <<"item_received_offer",
       {"collection", "item", "event_timestamp", "base_price", "created_date",
        "expiration_date", "maker", "order_hash", "payment_token", "quantity"}>>,
     <<"item_received_bid",
       {"collection", "item", "event_timestamp", "base_price", "created_date",
        "expiration_date", "maker", "order_hash", "payment_token", "quantity"}>>,
     <<"collection_offer",
       {"asset_contract_criteria", "base_price", "collection",
        "collection_criteria", "created_date", "event_timestamp",
        "expiration_date", "maker", "order_hash", "payment_token",
        "protocol_address", "protocol_data", "quantity"}>>,
     <<"trait_offer",
       {"asset_contract_criteria", "base_price", "collection",
        "collection_criteria", "created_date", "event_timestamp",
        "expiration_date", "maker", "order_hash", "payment_token",
        "protocol_address", "protocol_data", "quantity", "trait_criteria"}>>,
     <<"order_invalidate",
       {"chain", "collection", "event_timestamp", "item", "protocol_address"}>>,
     <<"order_revalidate",
       {"chain", "collection", "event_timestamp", "item", "order_hash",
        "protocol_address"}>>}

\* the fields of each payload record that are Option<_> or have a default
Payload_optional_arms ==
    {<<"item_listed", {"listing_type"}>>,
     <<"item_sold", {"listing_type"}>>,
     <<"item_transferred", {"transaction"}>>,
     <<"item_metadata_updated", {}>>,
     <<"item_cancelled", {"listing_date", "listing_type", "transaction"}>>,
     <<"item_received_offer", {"taker"}>>,
     <<"item_received_bid", {"taker"}>>,
     <<"collection_offer", {"taker"}>>,
     <<"trait_offer", {"taker"}>>,
     <<"order_invalidate", {"order_hash"}>>,
     <<"order_revalidate", {}>>}

OptionalFields(t) == MatchArm(Payload_optional_arms, t)

\* a variant of RequiredFields in which no field tolerates absence
RequiredFields_all(t) ==
    MatchArm(Payload_required_arms, t) \cup MatchArm(Payload_optional_arms, t)

RequiredFields(t) == MatchArm(Payload_required_arms, t)

(***************************************************************************)
(* An inbound text message, field by field:                                *)
(*   json        the text parses as JSON                                   *)
(*   envelope    the object has string fields topic and event              *)
(*   payload     "null" (absent or null) or "object"                       *)
(*   status      the payload's status: "absent", "string" or "number"      *)
(*   response    the payload has a response field                          *)
(*   sent_at     "absent", "rfc3339" or "invalid"                          *)
(*   event_type  the payload's event_type string ("" when absent)          *)
(*   fields      the fields of the inner payload record other than         *)
(*               item.nft_id and protocol_data.parameters.startTime:       *)
(*               "complete"; "missing" (a required one is absent);         *)
(*               "malformed_first" / "malformed_last" (one has a value of  *)
(*               the wrong shape, spelled before / after item and          *)
(*               protocol_data in the text)                                *)
(*   slug        payload.collection.slug                                   *)
(*   chain       payload.item.chain.name ("" when null)                    *)
(*   nft_id      payload.item.nft_id, split at '/' (<<>> when null)        *)
(*   start_time  payload.protocol_data.parameters.startTime                *)
(*   absent      the names of the fields the inner payload record leaves   *)
(*               out (or gives as null)                                    *)
(***************************************************************************)
\* Item { nft_id, chain, .. } once nft_id is decoded (chain is spelled first)
Item_build(m, nft) ==
    IF m.chain # "" /\ Chain_deserialize(m.chain) = "Err" THEN Err
    ELSE IF nft.tag # "Ok" THEN nft
    ELSE Ok([nft_id |-> nft.value,
             chain |-> IF m.chain = "" THEN "" ELSE Chain_deserialize(m.chain)])

\* Item: nft_id is Option<NftId>, chain is Option<Chain>
Item_deserialize(m) ==
    Item_build(m, IF m.nft_id = <<>> THEN Ok(Nothing)
                  ELSE NftId_deserialize(m.nft_id))

\* ProtocolData / Parameters: start_time goes through timestamp_to_date
ProtocolData_deserialize(m) == timestamp_to_date_deserialize(m.start_time)

\* the record of one Payload variant, once item and protocol_data are decoded:
\* serde visits the fields in the order the text spells them and reports
\* missing fields after the last one
PayloadData_build(m, item, pdata) ==
    IF m.fields = "malformed_first" THEN Err
    ELSE IF item.tag # "Ok" THEN item
    ELSE IF pdata.tag # "Ok" THEN pdata
    ELSE IF m.fields \in {"malformed_last", "missing"} THEN Err
    ELSE IF m.absent \cap RequiredFields(m.event_type) # {} THEN Err
    ELSE Ok([collection |-> m.slug, item |-> item.value,
             start_time |-> pdata.value,
             populated |-> (RequiredFields(m.event_type)
                              \cup OptionalFields(m.event_type)) \ m.absent])

\* the record of one Payload variant
PayloadData_deserialize(m) ==
    PayloadData_build(m,
        IF m.event_type \in HasItem /\ "item" \notin m.absent
        THEN Item_deserialize(m) ELSE Ok(Nothing),
        IF m.event_type \in HasProtocolData /\ "protocol_data" \notin m.absent
        THEN ProtocolData_deserialize(m) ELSE Ok(0))

\* the variant wrapped around its decoded record
Payload_build(m, data) ==
    IF data.tag # "Ok" THEN data
    ELSE Ok([variant |-> PayloadVariant(m.event_type), data |-> data.value])

\* a variant of Payload_deserialize that unwraps the variant lookup, so an
\* unknown event_type panics instead of being an error
Payload_deserialize_unwrap(m) ==
    IF PayloadVariant(m.event_type) = "Err" THEN Panic
    ELSE Payload_build(m, PayloadData_deserialize(m))

\* enum Payload, #[serde(tag = "event_type", content = "payload")]
Payload_deserialize(m) ==
    IF PayloadVariant(m.event_type) = "Err" THEN Err
    ELSE Payload_build(m, PayloadData_deserialize(m))

\* StreamEvent around its decoded payload
StreamEvent_build(m, p) ==
    IF p.tag # "Ok" THEN p
    ELSE Ok([sent_at |-> m.sent_at, payload |-> p.value])

\* struct StreamEvent { sent_at, #[serde(flatten)] payload }
StreamEvent_deserialize(m) ==
    IF m.sent_at # "rfc3339" THEN Err
    ELSE StreamEvent_build(m, Payload_deserialize(m))

(***************************************************************************)
(* client.rs: the envelope PhoenixResponse and the untagged Payload<R>.    *)
(***************************************************************************)
\* the PushReply variant matches: status is a String and response is there
PushReply_matches(m) == m.status = "string" /\ m.response

\* the Custom(R) variant around a decoded R
Custom_build(c) ==
    IF c.tag # "Ok" THEN c
    ELSE Ok([shape |-> "Custom", event |-> c.value])

\* a variant of PushPayload_deserialize with the two variants declared in the
\* other order: Custom(R) is tried first, PushReply only when it fails
PushPayload_deserialize_custom_first(m) ==
    IF StreamEvent_deserialize(m).tag = "Ok"
    THEN Custom_build(StreamEvent_deserialize(m))
    ELSE IF PushReply_matches(m)
    THEN Ok([shape |-> "PushReply", event |-> Nothing])
    ELSE Custom_build(StreamEvent_deserialize(m))

\* enum Payload<R>, #[serde(untagged)]: PushReply is tried first, then Custom(R)
PushPayload_deserialize(m) ==
    IF PushReply_matches(m) THEN Ok([shape |-> "PushReply", event |-> Nothing])
    ELSE Custom_build(StreamEvent_deserialize(m))

\* serde_json::from_str::<PhoenixResponse>(&message)
PhoenixResponse_from_str(m) ==
    IF ~m.json THEN Err
    ELSE IF ~m.envelope THEN Err
    ELSE IF m.payload = "null" THEN Ok([shape |-> "None", event |-> Nothing])
    ELSE PushPayload_deserialize(m)

\* what read_event makes of one message taken from the inbound channel:
\* Some(event), None, or a panic raised inside the decoder
None == [kind |-> "None", event |-> Nothing]
Some(e) == [kind |-> "Some", event |-> e]
Panicked == [kind |-> "Panic", event |-> Nothing]

\* a variant of read_event_match that hands out whatever payload decoded,
\* push replies and absent payloads included
read_event_match_any(response) ==
    IF response.tag = "Panic" THEN Panicked
    ELSE IF response.tag = "Err" THEN None
    ELSE Some(response.value.event)

\* read_event after recv(): the two matches on the decoded response
read_event_match(response) ==
    IF response.tag = "Panic" THEN Panicked
    ELSE IF response.tag = "Err" THEN None
    ELSE IF response.value.shape = "Custom" THEN Some(response.value.event)
    ELSE None

read_event_result(m) == read_event_match(PhoenixResponse_from_str(m))

(***************************************************************************)
(* The inbound messages and frames the transport delivers in this model.   *)
(***************************************************************************)
\* examples/parse_tests.rs: the sample item_metadata_updated message
MetadataUpdatedMsg ==
    [json |-> TRUE, envelope |-> TRUE, payload |-> "object",
     status |-> "absent", response |-> FALSE, sent_at |-> "rfc3339",
     event_type |-> "item_metadata_updated", fields |-> "complete",
     slug |-> "neon-vortex-1", chain |-> "matic",
     nft_id |-> <<"matic", "0x978c92725bb4f87c1da3ba2e8b7c11a24e6aa0a5", "3101">>,
     start_time |-> [shape |-> "str_epoch", secs |-> 1], absent |-> {}]

\* a well-formed item_listed message (startTime is an epoch-seconds string)
ItemListedMsg == [MetadataUpdatedMsg EXCEPT !.event_type = "item_listed"]

\* a reply to a join or a heartbeat: {"status": "ok", "response": {}}
PushReplyMsg ==
    [MetadataUpdatedMsg EXCEPT !.status = "string", !.response = TRUE,
                               !.sent_at = "absent", !.event_type = "",
                               !.fields = "missing", !.chain = "", !.nft_id = <<>>]

\* a payload that has status and response next to the fields of an event
ReplyWithEventMsg ==
    [MetadataUpdatedMsg EXCEPT !.status = "string", !.response = TRUE]

\* an event_type this version does not know
UnknownEventMsg == [MetadataUpdatedMsg EXCEPT !.event_type = "item_minted"]

\* nft_id with two '/'-separated parts: "matic/0x978c...a0a5"
ShortNftIdMsg ==
    [MetadataUpdatedMsg EXCEPT
        !.nft_id = <<"matic", "0x978c92725bb4f87c1da3ba2e8b7c11a24e6aa0a5">>]

\* startTime given as an RFC-3339 string
TextStartTimeMsg ==
    [ItemListedMsg EXCEPT !.start_time = [shape |-> "str_rfc3339", secs |-> 1]]

\* text that is not JSON
MalformedJsonMsg == [MetadataUpdatedMsg EXCEPT !.json = FALSE]

Messages == {MetadataUpdatedMsg, PushReplyMsg, ReplyWithEventMsg, UnknownEventMsg,
             ShortNftIdMsg, TextStartTimeMsg, MalformedJsonMsg}

\* tungstenite Message variants other than Text
NonTextFrames == {"Binary", "Ping", "Pong", "Close"}

(***************************************************************************)
(* The state of one session.                                               *)
(***************************************************************************)
VARIABLES
    conn,            \* the websocket connection: "up" or "down"
    send_rx,         \* messages buffered in the outbound channel (send_tx -> send_rx)
    read_rx,         \* messages buffered in the inbound channel (read_tx -> read_rx)
    ws_sent,         \* the frames ws_write has put on the transport, in order
    writer,          \* the writer task: "running" or "panicked"
    reader,          \* the reader task: "running", "ended" or "panicked"
    heartbeat,       \* the heartbeat task: at its "send" or in its "sleep"
    client,          \* the caller's Client value: "alive", "dropped" or "panicked"
    result,          \* what the last read_event call returned
    taken,           \* the message the last read_event call took from read_rx
    received,        \* text frames the reader has forwarded so far
    dropped_unknown  \* a read_event call has discarded an unknown event_type

vars == <<conn, send_rx, read_rx, ws_sent, writer, reader, heartbeat, client,
          result, taken, received, dropped_unknown>>

NoCall == [kind |-> "NoCall", event |-> Nothing]

\* the state Client::new returns in: connected, three tasks spawned
Init ==
    /\ conn = "up"
    /\ send_rx = <<>>
    /\ read_rx = <<>>
    /\ ws_sent = <<>>
    /\ writer = "running"
    /\ reader = "running"
    /\ heartbeat = "send"
    /\ client = "alive"
    /\ result = NoCall
    /\ taken = Nothing
    /\ received = 0
    /\ dropped_unknown = FALSE

\* frames enqueued so far and still buffered or on the transport
Enqueued == Len(send_rx) + Len(ws_sent)

(***************************************************************************)
(* The writer task: while let Some(message) = send_rx.recv().await         *)
(***************************************************************************)
\* a variant of WriterSend that peeks at the queue: the frame is sent but stays
\* at the head of send_rx
WriterSend_peek ==
    /\ writer = "running"
    /\ send_rx # <<>>
    /\ conn = "up"
    /\ ws_sent' = Append(ws_sent, WsFrame(Head(send_rx)))
    /\ UNCHANGED <<conn, send_rx, read_rx, writer, reader, heartbeat, client,
                   result, taken, received, dropped_unknown>>

\* a variant of WriterSend that takes the newest message instead of the oldest
WriterSend_newest ==
    /\ writer = "running"
    /\ send_rx # <<>>
    /\ conn = "up"
    /\ ws_sent' = Append(ws_sent, WsFrame(send_rx[Len(send_rx)]))
    /\ send_rx' = SubSeq(send_rx, 1, Len(send_rx) - 1)
    /\ UNCHANGED <<conn, read_rx, writer, reader, heartbeat, client, result,
                   taken, received, dropped_unknown>>

\* ws_write.send(..) succeeds
WriterSend ==
    /\ writer = "running"
    /\ send_rx # <<>>
    /\ conn = "up"
    /\ ws_sent' = Append(ws_sent, WsFrame(Head(send_rx)))
    /\ send_rx' = Tail(send_rx)
    /\ UNCHANGED <<conn, read_rx, writer, reader, heartbeat, client, result,
                   taken, received, dropped_unknown>>

\* ws_write.send(..) fails: unwrap() panics, the task ends and send_rx is dropped
WriterSendFails ==
    /\ writer = "running"
    /\ send_rx # <<>>
    /\ conn = "down"
    /\ writer' = "panicked"
    /\ send_rx' = <<>>
    /\ UNCHANGED <<conn, read_rx, ws_sent, reader, heartbeat, client, result,
                   taken, received, dropped_unknown>>

(***************************************************************************)
(* The reader task: while let Some(message) = ws_read.next().await         *)
(***************************************************************************)
\* a text frame is forwarded with read_tx.send(payload)
ReaderForward(m) ==
    /\ reader = "running"
    /\ conn = "up"
    /\ client = "alive"
    /\ received < MaxRecv
    /\ Len(read_rx) < ReadCap
    /\ read_rx' = Append(read_rx, m)
    /\ received' = received + 1
    /\ UNCHANGED <<conn, send_rx, ws_sent, writer, reader, heartbeat, client,
                   result, taken, dropped_unknown>>

\* a text frame arrives after read_rx was dropped: read_tx.send(..).unwrap() panics
ReaderSendFails ==
    /\ reader = "running"
    /\ conn = "up"
    /\ client # "alive"
    /\ reader' = "panicked"
    /\ UNCHANGED <<conn, send_rx, read_rx, ws_sent, writer, heartbeat, client,
                   result, taken, received, dropped_unknown>>

\* a frame that is not Message::Text: panic!("unexpected message")
ReaderNonText(f) ==
    /\ reader = "running"
    /\ conn = "up"
    /\ f \in NonTextFrames
    /\ reader' = "panicked"
    /\ UNCHANGED <<conn, send_rx, read_rx, ws_sent, writer, heartbeat, client,
                   result, taken, received, dropped_unknown>>

\* ws_read.next() yields Some(Err(_)): message.unwrap() panics
ReaderError ==
    /\ reader = "running"
    /\ reader' = "panicked"
    /\ UNCHANGED <<conn, send_rx, read_rx, ws_sent, writer, heartbeat, client,
                   result, taken, received, dropped_unknown>>

\* ws_read.next() yields None: the loop ends
ReaderEnd ==
    /\ reader = "running"
    /\ conn = "down"
    /\ reader' = "ended"
    /\ UNCHANGED <<conn, send_rx, read_rx, ws_sent, writer, heartbeat, client,
                   result, taken, received, dropped_unknown>>

(***************************************************************************)
(* The heartbeat task: loop { let _ = send(Heartbeat).await; sleep(30 s) } *)
(***************************************************************************)
\* a variant of HeartbeatEnqueueWithin in which the heartbeat task holds the
\* sink itself and writes its frame to the transport
HeartbeatEnqueueWithin_direct(n) ==
    /\ heartbeat = "send"
    /\ writer = "running"
    /\ conn = "up"
    /\ Enqueued < n
    /\ ws_sent' = Append(ws_sent, WsFrame(Heartbeat))
    /\ heartbeat' = "sleep"
    /\ UNCHANGED <<conn, send_rx, read_rx, writer, reader, client, result, taken,
                   received, dropped_unknown>>

\* a variant of HeartbeatEnqueueWithin that uses try_send: when the queue is
\* full the frame is dropped and the task goes to sleep
HeartbeatEnqueueWithin_try_send(n) ==
    /\ heartbeat = "send"
    /\ writer = "running"
    /\ Enqueued < n
    /\ send_rx' = IF Len(send_rx) < SendCap THEN Append(send_rx, Heartbeat)
                  ELSE send_rx
    /\ heartbeat' = "sleep"
    /\ UNCHANGED <<conn, read_rx, ws_sent, writer, reader, client, result, taken,
                   received, dropped_unknown>>

\* send_heartbeat.send(Heartbeat) enqueues the frame (it waits while the queue
\* is full); n bounds the frames enqueued in one run
HeartbeatEnqueueWithin(n) ==
    /\ heartbeat = "send"
    /\ writer = "running"
    /\ Len(send_rx) < SendCap
    /\ Enqueued < n
    /\ send_rx' = Append(send_rx, Heartbeat)
    /\ heartbeat' = "sleep"
    /\ UNCHANGED <<conn, read_rx, ws_sent, writer, reader, client, result, taken,
                   received, dropped_unknown>>

HeartbeatEnqueue == HeartbeatEnqueueWithin(MaxOut)

\* send_rx is gone: send returns Err, `let _ =` discards it, the loop goes on
HeartbeatSendFails ==
    /\ heartbeat = "send"
    /\ writer # "running"
    /\ heartbeat' = "sleep"
    /\ UNCHANGED <<conn, send_rx, read_rx, ws_sent, writer, reader, client, result,
                   taken, received, dropped_unknown>>

\* tokio::time::sleep(Duration::from_secs(30)) elapses
HeartbeatWake ==
    /\ heartbeat = "sleep"
    /\ heartbeat' = "send"
    /\ UNCHANGED <<conn, send_rx, read_rx, ws_sent, writer, reader, client, result,
                   taken, received, dropped_unknown>>

(***************************************************************************)
(* The caller: Client::subscribe, Client::read_event, and dropping Client. *)
(***************************************************************************)
\* subscribe while send_rx is alive: the join frame is enqueued (the call
\* waits while the queue is full); n bounds the frames enqueued in one run
SubscribeOkWithin(c, n) ==
    /\ client = "alive"
    /\ writer = "running"
    /\ Len(send_rx) < SendCap
    /\ Enqueued < n
    /\ send_rx' = Append(send_rx, Subscribe(c))
    /\ UNCHANGED <<conn, read_rx, ws_sent, writer, reader, heartbeat, client,
                   result, taken, received, dropped_unknown>>

SubscribeOk(c) == SubscribeOkWithin(c, MaxOut)

\* subscribe after the writer ended: send returns Err and unwrap() panics;
\* the unwinding caller drops the Client, and read_rx with it
SubscribeClosed(c) ==
    /\ client = "alive"
    /\ writer # "running"
    /\ client' = "panicked"
    /\ read_rx' = <<>>
    /\ UNCHANGED <<conn, send_rx, ws_sent, writer, reader, heartbeat, result,
                   taken, received, dropped_unknown>>

Subscribe_call(c) == SubscribeOk(c) \/ SubscribeClosed(c)

\* read_event with a message buffered: recv() yields it and it is decoded
ReadEventMessage ==
    /\ client = "alive"
    /\ read_rx # <<>>
    /\ result' = read_event_result(Head(read_rx))
    /\ taken' = Head(read_rx)
    /\ client' = IF result'.kind = "Panic" THEN "panicked" ELSE "alive"
    /\ read_rx' = IF result'.kind = "Panic" THEN <<>> ELSE Tail(read_rx)
    /\ dropped_unknown' =
          (dropped_unknown
             \/ (result'.kind = "None" /\ PayloadVariant(taken'.event_type) = "Err"))
    /\ UNCHANGED <<conn, send_rx, ws_sent, writer, reader, heartbeat, received>>

\* read_event with the channel empty and read_tx dropped: recv() yields None
\* and unwrap() panics
ReadEventClosed ==
    /\ client = "alive"
    /\ read_rx = <<>>
    /\ reader # "running"
    /\ result' = Panicked
    /\ client' = "panicked"
    /\ UNCHANGED <<conn, send_rx, read_rx, ws_sent, writer, reader, heartbeat,
                   taken, received, dropped_unknown>>

read_event == ReadEventMessage \/ ReadEventClosed

\* the caller drops the Client: send_tx and read_rx are dropped
DropClient ==
    /\ client = "alive"
    /\ client' = "dropped"
    /\ read_rx' = <<>>
    /\ UNCHANGED <<conn, send_rx, ws_sent, writer, reader, heartbeat, result,
                   taken, received, dropped_unknown>>

(***************************************************************************)
(* The environment: the connection is lost.                                *)
(***************************************************************************)
ConnectionLost ==
    /\ conn = "up"
    /\ conn' = "down"
    /\ UNCHANGED <<send_rx, read_rx, ws_sent, writer, reader, heartbeat, client,
                   result, taken, received, dropped_unknown>>

Next ==
    \/ WriterSend
    \/ WriterSendFails
    \/ \E m \in Messages : ReaderForward(m)
    \/ ReaderSendFails
    \/ \E f \in NonTextFrames : ReaderNonText(f)
    \/ ReaderError
    \/ ReaderEnd
    \/ HeartbeatEnqueue
    \/ HeartbeatSendFails
    \/ HeartbeatWake
    \/ \E c \in Collection : SubscribeOk(c)
    \/ \E c \in Collection : SubscribeClosed(c)
    \/ ReadEventMessage
    \/ ReadEventClosed
    \/ DropClient
    \/ ConnectionLost

Spec == Init /\ [][Next]_vars

\* the tokio scheduler runs every task that is ready: the writer and the
\* heartbeat take each step that stays enabled
FairSpec ==
    /\ Init
    /\ [][Next]_vars
    /\ WF_vars(WriterSend)
    /\ WF_vars(WriterSendFails)
    /\ WF_vars(HeartbeatEnqueue)
    /\ WF_vars(HeartbeatSendFails)
    /\ WF_vars(HeartbeatWake)
    /\ WF_vars(ReaderSendFails)
    /\ WF_vars(ReaderEnd)

(***************************************************************************)
(* The writer draining an outbound queue that holds any frames subscribe   *)
(* and the heartbeat can have enqueued, for collections with several       *)
(* slugs.                                                                  *)
(***************************************************************************)
\* frames waiting in the outbound channel when the writer runs
MaxQueued == 3

WireSlugs == {"neon-vortex-1", "neon-vortex", "*"}

WireMessages ==
    {Heartbeat, Subscribe(CollectionAll)}
        \cup {Subscribe([tag |-> "Collection", slug |-> g]) : g \in WireSlugs}

WireInit ==
    /\ conn = "up"
    /\ send_rx \in UNION {[1..n -> WireMessages] : n \in 1..MaxQueued}
    /\ read_rx = <<>>
    /\ ws_sent = <<>>
    /\ writer = "running"
    /\ reader = "running"
    /\ heartbeat = "sleep"
    /\ client = "alive"
    /\ result = NoCall
    /\ taken = Nothing
    /\ received = 0
    /\ dropped_unknown = FALSE

WireNext == WriterSend

WireSpec == WireInit /\ [][WireNext]_vars

(***************************************************************************)
(* read_event decoding one buffered message, for messages that vary the    *)
(* sample of examples/parse_tests.rs in its event_type, its networks, its  *)
(* startTime and the fields it leaves out.                                 *)
(***************************************************************************)
DecodeAddress == "0x978c92725bb4f87c1da3ba2e8b7c11a24e6aa0a5"

\* the sample message as an event of type t
DecodeBase(t) == [MetadataUpdatedMsg EXCEPT !.event_type = t]

\* network names no Chain value is written as
UnknownNetworks == {"polygon", "Ethereum", "goerli-testnet"}

\* nft_id strings: the serialization of an NftId on each chain, and unknown networks
NftIdTexts ==
    {NftId_serialize([network |-> c, address |-> DecodeAddress, id |-> "3101"]) :
        c \in Chain}
      \cup {<<n, DecodeAddress, "3101">> : n \in UnknownNetworks}

\* item.chain.name strings ("" is null)
ChainTexts == {Chain_fmt(c) : c \in Chain} \cup {"", "polygon"}

InputsByChain ==
    {[DecodeBase(t) EXCEPT !.nft_id = n, !.chain = w] :
        t \in EventTypes, n \in NftIdTexts, w \in {"matic", "goerli", ""}}
      \cup {[DecodeBase(t) EXCEPT !.chain = w] : t \in EventTypes, w \in ChainTexts}

InputsByTime ==
    {[DecodeBase(t) EXCEPT !.start_time = v] : t \in EventTypes, v \in TimeValue}

AbsentNames == {"transaction", "maker", "taker", "order_hash", "listing_type",
                "collection", "item", "protocol_data"}

InputsByAbsent ==
    {[DecodeBase(t) EXCEPT !.absent = A] :
        t \in EventTypes, A \in {B \in SUBSET AbsentNames : Cardinality(B) <= 2}}

DecodeInputs == Messages \cup InputsByChain \cup InputsByTime \cup InputsByAbsent

\* the reader has forwarded one message; read_event has not been called
DecodeInit ==
    /\ conn = "up"
    /\ send_rx = <<>>
    /\ read_rx \in {<<m>> : m \in DecodeInputs}
    /\ ws_sent = <<>>
    /\ writer = "running"
    /\ reader = "running"
    /\ heartbeat = "send"
    /\ client = "alive"
    /\ result = NoCall
    /\ taken = Nothing
    /\ received = 1
    /\ dropped_unknown = FALSE

DecodeNext == ReadEventMessage

DecodeSpec == DecodeInit /\ [][DecodeNext]_vars

(***************************************************************************)
(* The session while the connection is up and the caller keeps the Client, *)
(* with room for enough frames to fill both channels.  A run starts either *)
(* in the state Client::new returns in, or with a writer that has fallen   *)
(* behind (the outbound channel full) and a caller that has fallen behind  *)
(* (the inbound channel one short of full); received counts the frames     *)
(* forwarded from there on.                                                *)
(***************************************************************************)
\* one frame more than the outbound channel holds
MaxBurst == SendCap + 1

BackpressureInit ==
    /\ conn = "up"
    /\ writer = "running"
    /\ reader = "running"
    /\ heartbeat = "send"
    /\ client = "alive"
    /\ result = NoCall
    /\ taken = Nothing
    /\ received = 0
    /\ dropped_unknown = FALSE
    /\ \/ /\ send_rx = <<>>
          /\ ws_sent = <<>>
          /\ read_rx = <<>>
       \/ /\ send_rx = <<Heartbeat, Subscribe(CollectionAll), Heartbeat, Heartbeat>>
          /\ ws_sent = [i \in 1..(MaxBurst - SendCap) |-> WsFrame(Heartbeat)]
          /\ read_rx = [i \in 1..(ReadCap - 1) |-> MetadataUpdatedMsg]

BackpressureNext ==
    \/ WriterSend
    \/ HeartbeatEnqueueWithin(MaxBurst)
    \/ HeartbeatWake
    \/ SubscribeOkWithin(CollectionAll, MaxBurst)
    \/ ReaderForward(MetadataUpdatedMsg)
    \/ ReadEventMessage

BackpressureSpec == BackpressureInit /\ [][BackpressureNext]_vars

(***************************************************************************)
(* Vocabulary of the properties.                                           *)
(***************************************************************************)
\* the session is closed: an activity has ended or the caller let go of Client
SessionClosed == writer # "running" \/ reader # "running" \/ client # "alive"

\* the heartbeat task has left its loop
HeartbeatStopped == heartbeat \notin {"send", "sleep"}

\* the nft_id string names a known network, an address and a token id
WellFormedNftId(segs) ==
    /\ Len(segs) >= 3
    /\ segs[1] \in {a[1] : a \in Chain_from_str_arms}
    /\ segs[2] \in ValidAddress

\* m is an envelope around a complete domain event and is not a push reply
WellFormedEvent(m) ==
    /\ m.json
    /\ m.envelope
    /\ m.payload = "object"
    /\ ~(m.status = "string" /\ m.response)
    /\ m.sent_at = "rfc3339"
    /\ m.event_type \in EventTypes
    /\ m.fields = "complete"
    /\ m.absent \cap RequiredFields(m.event_type) = {}
    /\ m.event_type \in HasItem =>
         /\ m.chain = "" \/ m.chain \in {a[1] : a \in Chain_deserialize_arms}
         /\ m.nft_id = <<>> \/ WellFormedNftId(m.nft_id)
    /\ m.event_type \in HasProtocolData =>
         /\ m.start_time.shape = "str_epoch"
         /\ m.start_time.secs <= MaxTimestamp

(***************************************************************************)
(* C1: once the connection is closed (the reader has ended and the inbound *)
(* queue is drained), every read_event call returns None without crashing  *)
(* and none returns an event again.                                        *)
(***************************************************************************)
C1_ClosedReadsReturnNone ==
    [][(reader # "running" /\ read_rx = <<>> /\ read_event)
         => (result'.kind = "None" /\ client' = "alive")]_vars

C3_DecodeNeverPanics ==
    [][ReadEventMessage
         => /\ result'.kind # "Panic"
            /\ client' = "alive"
            /\ ~WellFormedEvent(Head(read_rx)) => result'.kind = "None"
            /\ UNCHANGED <<writer, reader>>]_vars

(***************************************************************************)
(* C4: a message with an unrecognized event_type is dropped (read_event    *)
(* returns None, the caller and the three activities go on, the messages   *)
(* queued behind it stay queued), and a well-formed event taken after such *)
(* a drop is returned as Some(event) of its own variant.                   *)
(***************************************************************************)
C4_UnknownEventDropped ==
    [][ReadEventMessage
         => /\ Head(read_rx).event_type \notin EventTypes
                 => /\ result' = None
                    /\ client' = "alive"
                    /\ read_rx' = Tail(read_rx)
                    /\ UNCHANGED <<writer, reader, heartbeat, conn, send_rx>>
            /\ (dropped_unknown /\ WellFormedEvent(Head(read_rx)))
                 => /\ result'.kind = "Some"
                    /\ result'.event.payload.variant
                         = MatchArm(Payload_arms, Head(read_rx).event_type)
                    /\ client' = "alive"]_vars

\* an unknown event_type was dropped and a later call returned an event
C4_DeliveredAfterDrop ==
    /\ dropped_unknown
    /\ result.kind = "Some"
    /\ taken = MetadataUpdatedMsg
    /\ client = "alive"

(***************************************************************************)
(* C5: read_event never returns an event built from a message whose        *)
(* payload has the push-reply shape (a string status and a response).      *)
(***************************************************************************)
C5_PushReplyNeverSurfaced ==
    result.kind = "Some" => ~(taken.status = "string" /\ taken.response)

\* read_event took a push reply that also carries the fields of an event
C5_ReplyTaken ==
    /\ result.kind = "None"
    /\ taken = ReplyWithEventMsg
    /\ client = "alive"

(***************************************************************************)
(* C6: once the session is closed, for whatever reason, no heartbeat frame *)
(* is enqueued or sent any more and the heartbeat activity stops.          *)
(***************************************************************************)
C6_HeartbeatCeases ==
    [][SessionClosed
         => /\ ~HeartbeatEnqueue
            /\ ~(WriterSend /\ Head(send_rx) = Heartbeat)
            /\ (heartbeat' # heartbeat => HeartbeatStopped')]_vars

(***************************************************************************)
(* C7: after the caller drops Client, the writer, the reader and the       *)
(* heartbeat each eventually terminate.                                    *)
(***************************************************************************)
C7_DropTerminatesAll ==
    (client = "dropped")
        ~> (writer # "running" /\ reader # "running" /\ HeartbeatStopped)

(***************************************************************************)
(* C8: once a transport send has failed the writer has ended for good, no  *)
(* further frame is sent, and no inbound frame reaches the caller as an    *)
(* event.                                                                  *)
(***************************************************************************)
C8_SendFailureCloses ==
    [][writer = "panicked"
         => /\ writer' = "panicked"
            /\ ws_sent' = ws_sent
            /\ ~(\E m \in Messages : ReaderForward(m))
            /\ ~(read_event /\ result'.kind = "Some")]_vars

(***************************************************************************)
(* C9: once the reader has met a non-text frame or a read error, it        *)
(* forwards nothing more, the writer and the heartbeat stop sending, and   *)
(* the caller's event stream has ended.                                    *)
(***************************************************************************)
C9_ReadFailureCloses ==
    [][reader = "panicked"
         => /\ reader' = "panicked"
            /\ ~(\E m \in Messages : ReaderForward(m))
            /\ ws_sent' = ws_sent
            /\ ~HeartbeatEnqueue
            /\ (read_rx = <<>> /\ read_event) => result'.kind = "None"]_vars

(***************************************************************************)
(* C10: subscribe called after the writer has ended reports an error to    *)
(* the caller instead of crashing, and leaves both queues and all          *)
(* activities as they were.                                                *)
(***************************************************************************)
C10_SubscribeAfterCloseErrs ==
    [][(writer # "running" /\ \E c \in Collection : Subscribe_call(c))
         => /\ client' = "alive"
            /\ UNCHANGED <<send_rx, read_rx, writer, reader, heartbeat>>]_vars

\* join frames for collection c waiting in the outbound queue / sent so far
JoinsQueued(c) ==
    Cardinality({i \in DOMAIN send_rx : send_rx[i] = Subscribe(c)})

JoinsSent(c) ==
    Cardinality({i \in DOMAIN ws_sent : ws_sent[i] = WsFrame(Subscribe(c))})

(***************************************************************************)
(* C11: a subscribe call made while the session is open appends exactly    *)
(* one join frame for its collection to the outbound queue and returns     *)
(* without taking anything from the inbound queue; no other step changes   *)
(* the number of join frames queued plus sent, so a frame is never sent    *)
(* twice; and while the connection accepts sends the queued join frames    *)
(* eventually all leave the queue, which by the above means each was sent. *)
(***************************************************************************)
C11_SubscribeSendsOnce ==
    /\ [][\A c \in Collection :
            /\ (~SessionClosed /\ Subscribe_call(c))
                 => /\ send_rx' = Append(send_rx, Subscribe(c))
                    /\ UNCHANGED <<read_rx, ws_sent, client, result, taken>>
            /\ writer' = "running"
                 => /\ JoinsSent(c)' >= JoinsSent(c)
                    /\ JoinsQueued(c)' + JoinsSent(c)'
                         = JoinsQueued(c) + JoinsSent(c)
                             + (IF Subscribe_call(c) THEN 1 ELSE 0)]_vars
    /\ (conn = "up" /\ \E c \in Collection : JoinsQueued(c) > 0)
           ~> (conn = "down" \/ \A c \in Collection : JoinsQueued(c) = 0)

\* a join frame went out on a connection that is still up, nothing is queued
C11_JoinSent ==
    /\ JoinsSent(CollectionAll) = 1
    /\ send_rx = <<>>
    /\ conn = "up"
    /\ writer = "running"
    /\ client = "alive"

\* the frames sent so far followed by the frames the queued messages will make
WireOrder == ws_sent \o [i \in DOMAIN send_rx |-> WsFrame(send_rx[i])]

(***************************************************************************)
(* C12: the frames sent followed by the frames still queued always form    *)
(* the order of enqueueing: an enqueue by the heartbeat or by subscribe    *)
(* extends it at the end, and the only step that sends moves the oldest    *)
(* queued frame, and nothing else, from the queue onto the transport, so   *)
(* frames go out in FIFO order and each once.                              *)
(***************************************************************************)
C12_WriterFifo ==
    [][/\ writer' = "running"
            => \/ WireOrder' = WireOrder
               \/ \E m \in PhoenixMessage :
                      /\ WireOrder' = Append(WireOrder, WsFrame(m))
                      /\ send_rx' = Append(send_rx, m)
       /\ ws_sent' # ws_sent
            => /\ send_rx # <<>>
               /\ ws_sent' = Append(ws_sent, WsFrame(Head(send_rx)))
               /\ send_rx' = Tail(send_rx)
       /\ writer' # "running" => ws_sent' = ws_sent]_vars

\* a subscribe got in before the first heartbeat and both frames went out
C12_BothSentInOrder ==
    ws_sent = <<WsFrame(Subscribe(CollectionAll)), WsFrame(Heartbeat)>>

(***************************************************************************)
(* C13: the outbound queue never holds more than 4 messages and the        *)
(* inbound queue never more than 1024; a queue changes only by losing its  *)
(* oldest message to its consumer or by gaining one message at its end, so *)
(* nothing is overwritten or dropped; the heartbeat leaves its send only   *)
(* by enqueueing its frame, so on a full queue it waits; and while the     *)
(* inbound queue is full the reader forwards nothing.                      *)
(***************************************************************************)
C13_QueuesBounded ==
    /\ [](Len(send_rx) <= 4 /\ Len(read_rx) <= 1024)
    /\ [][/\ send_rx' # send_rx
               => \/ send_rx # <<>> /\ send_rx' = Tail(send_rx)
                  \/ /\ Len(send_rx) < 4
                     /\ \E m \in PhoenixMessage : send_rx' = Append(send_rx, m)
          /\ read_rx' # read_rx
               => \/ read_rx # <<>> /\ read_rx' = Tail(read_rx)
                  \/ /\ Len(read_rx) < 1024
                     /\ read_rx' = Append(read_rx, MetadataUpdatedMsg)
          /\ (heartbeat' # heartbeat /\ heartbeat = "send")
               => send_rx' = Append(send_rx, Heartbeat)
          /\ received' # received
               => read_rx' = Append(read_rx, MetadataUpdatedMsg)]_vars

\* both queues are full, the heartbeat waits at its send with a frame in hand
C13_BothQueuesFull ==
    /\ Len(send_rx) = 4
    /\ Len(read_rx) = 1024
    /\ heartbeat = "send"
    /\ reader = "running"
    /\ writer = "running"

(***************************************************************************)
(* C14: a frame is put on the transport only by a step of the writer, and  *)
(* a frame is taken from the transport (forwarded, or ending the reader)   *)
(* only by a step of the reader; a step of the heartbeat or of subscribe   *)
(* touches the outbound queue and never the transport.                     *)
(***************************************************************************)
C14_TransportOwnership ==
    [][/\ ws_sent' # ws_sent => WriterSend
       /\ (received' # received \/ reader' # reader)
            => \/ \E m \in Messages : ReaderForward(m)
               \/ ReaderSendFails
               \/ \E f \in NonTextFrames : ReaderNonText(f)
               \/ ReaderError
               \/ ReaderEnd
       /\ (HeartbeatEnqueue \/ \E c \in Collection : Subscribe_call(c))
            => UNCHANGED <<ws_sent, received, reader, conn>>]_vars

\* the heartbeat's and the caller's frames went out through the writer while
\* the reader forwarded an event to the caller
C14_BothDirectionsUsed ==
    /\ \E i \in DOMAIN ws_sent : ws_sent[i] = WsFrame(Heartbeat)
    /\ \E i \in DOMAIN ws_sent : ws_sent[i] = WsFrame(Subscribe(CollectionAll))
    /\ received > 0
    /\ result.kind = "Some"
    /\ reader = "running"

(***************************************************************************)
(* C15: every frame on the transport is a text frame, and its payload is   *)
(* the JSON text of a heartbeat or of a join message.                      *)
(***************************************************************************)
C15_FramesAreText ==
    \A i \in DOMAIN ws_sent :
        /\ ws_sent[i].type = "Text"
        /\ \E m \in PhoenixMessage : ws_sent[i].payload = PhoenixMessage_fmt(m)

\* the JSON object of the frame the writer has just put on the transport
LastSent == ws_sent[Len(ws_sent)].payload

(***************************************************************************)
(* C16: the frame sent for a subscription has topic "collection:" followed *)
(* by the slug, or "collection:*" for the wildcard, event "phx_join", an   *)
(* empty payload and ref 0; the frame sent for a heartbeat has topic       *)
(* "phoenix" and event "heartbeat"; and the join frames of two collections *)
(* with different slugs have different topics.                             *)
(***************************************************************************)
C16_FrameContents ==
    [][WriterSend
         => /\ Head(send_rx).tag = "Subscribe"
                 => /\ LastSent'.topic =
                         (IF Head(send_rx).collection.tag = "All"
                          THEN "collection:*"
                          ELSE "collection:" \o Head(send_rx).collection.slug)
                    /\ LastSent'.event = "phx_join"
                    /\ LastSent'.payload = "{}"
                    /\ LastSent'.ref = 0
            /\ Head(send_rx).tag = "Heartbeat"
                 => /\ LastSent'.topic = "phoenix"
                    /\ LastSent'.event = "heartbeat"
            /\ \A j \in DOMAIN send_rx :
                  (/\ Head(send_rx).tag = "Subscribe"
                   /\ send_rx[j].tag = "Subscribe"
                   /\ Head(send_rx).collection.tag = "Collection"
                   /\ send_rx[j].collection.tag = "Collection"
                   /\ Head(send_rx).collection.slug # send_rx[j].collection.slug)
                     => PhoenixMessage_fmt(send_rx[j]).topic # LastSent'.topic]_vars

\* the join frames for two slugs and a heartbeat have gone out
C16_AllKindsSent ==
    /\ Len(ws_sent) = 3
    /\ send_rx = <<>>
    /\ ws_sent[1].payload.topic = "collection:neon-vortex-1"
    /\ ws_sent[2].payload.topic = "collection:neon-vortex"
    /\ ws_sent[3].payload.topic = "phoenix"

(***************************************************************************)
(* C17: an nft_id string written for a token on chain c (its network part  *)
(* is the wire string of c, "matic" for Polygon) is read back as a token   *)
(* on chain c, for every Chain value c; an nft_id whose network part is    *)
(* not the wire string of any Chain value is a decode error.               *)
(***************************************************************************)
C17_ChainRoundTrip ==
    [][ReadEventMessage
         => /\ \A c \in Chain :
                  Head(read_rx) =
                      [MetadataUpdatedMsg EXCEPT !.nft_id =
                          NftId_serialize([network |-> c, address |-> DecodeAddress,
                                           id |-> "3101"])]
                    => /\ c = "Polygon" => Head(read_rx).nft_id[1] = "matic"
                       /\ result'.kind = "Some"
                       /\ result'.event.payload.data.item.nft_id.network = c
            /\ \A n \in UnknownNetworks :
                  Head(read_rx) =
                      [MetadataUpdatedMsg EXCEPT !.nft_id = <<n, DecodeAddress, "3101">>]
                    => result' = None]_vars

(***************************************************************************)
(* C18: a startTime given as an RFC-3339 string, as a string of epoch      *)
(* seconds or as a number of epoch seconds decodes, in all three shapes,   *)
(* to the instant it denotes.                                              *)
(***************************************************************************)
C18_TimestampShapes ==
    [][ReadEventMessage
         => \A k \in 0..MaxTimestamp :
              \A sh \in {"str_rfc3339", "str_epoch", "number"} :
                Head(read_rx) =
                    [DecodeBase("item_listed") EXCEPT
                        !.start_time = [shape |-> sh, secs |-> k]]
                  => /\ result'.kind = "Some"
                     /\ result'.event.payload.data.start_time = k]_vars

\* the wire strings of the Chain values
ChainWireStrings == {Chain_fmt(c) : c \in Chain}

\* a message every part of which is valid by the wire format: an event of one
\* of the eleven types, all its fields there, networks written as some Chain
\* value is written, startTime in one of the three timestamp shapes
WellFormedMessage(m) ==
    /\ m.json /\ m.envelope
    /\ m.payload = "object"
    /\ m.status = "absent" /\ ~m.response
    /\ m.sent_at = "rfc3339"
    /\ m.event_type \in EventTypes
    /\ m.fields = "complete"
    /\ m.absent = {}
    /\ m.chain = "" \/ m.chain \in ChainWireStrings
    /\ \/ m.nft_id = <<>>
       \/ /\ Len(m.nft_id) = 3
          /\ m.nft_id[1] \in ChainWireStrings
          /\ m.nft_id[2] \in ValidAddress
    /\ m.start_time.shape \in {"str_rfc3339", "str_epoch", "number"}
    /\ m.start_time.secs <= MaxTimestamp

(***************************************************************************)
(* C19: a well-formed message of each of the eleven event types is         *)
(* returned as an event of the variant named after its event_type, with    *)
(* the collection slug and the item's chain as the message gives them.     *)
(***************************************************************************)
C19_VariantPerEventType ==
    [][(ReadEventMessage /\ WellFormedMessage(Head(read_rx)))
         => /\ result'.kind = "Some"
            /\ result'.event.payload.variant
                 = MatchArm(Payload_arms, Head(read_rx).event_type)
            /\ result'.event.payload.data.collection = Head(read_rx).slug
            /\ (Head(read_rx).event_type \in HasItem /\ Head(read_rx).chain # "")
                 => Chain_fmt(result'.event.payload.data.item.chain)
                      = Head(read_rx).chain]_vars

\* the optional fields and the required field the claim names, by event type
C20_OptionalCases ==
    {<<"item_transferred", "transaction">>, <<"item_cancelled", "maker">>,
     <<"item_received_offer", "taker">>, <<"item_received_bid", "taker">>,
     <<"collection_offer", "taker">>, <<"trait_offer", "taker">>,
     <<"order_invalidate", "order_hash">>}

C20_RequiredCases ==
    {<<"order_revalidate", "order_hash">>}
        \cup {<<t, "collection">> : t \in EventTypes}

(***************************************************************************)
(* C20: the sample message of a type that leaves out one of its optional   *)
(* fields (a transfer's transaction, a cancellation's maker, an offer's or *)
(* bid's taker, an order_invalidate's order_hash) is returned as an event  *)
(* of its variant that holds no value for that field; one that leaves out  *)
(* a required field (an order_revalidate's order_hash, any collection) is  *)
(* a decode error: read_event returns None and the caller goes on.         *)
(***************************************************************************)
C20_AbsentFields ==
    [][ReadEventMessage
         => /\ \A p \in C20_OptionalCases :
                  Head(read_rx) = [DecodeBase(p[1]) EXCEPT !.absent = {p[2]}]
                    => /\ result'.kind = "Some"
                       /\ result'.event.payload.variant
                            = MatchArm(Payload_arms, p[1])
                       /\ p[2] \notin result'.event.payload.data.populated
            /\ \A p \in C20_RequiredCases :
                  Head(read_rx) = [DecodeBase(p[1]) EXCEPT !.absent = {p[2]}]
                    => /\ result' = None
                       /\ client' = "alive"]_vars

\* an order_invalidate without order_hash has been returned as an event
C20_InvalidateWithoutHash ==
    /\ result.kind = "Some"
    /\ taken = [DecodeBase("order_invalidate") EXCEPT !.absent = {"order_hash"}]
    /\ "order_hash" \notin result.event.payload.data.populated
    /\ "item" \in result.event.payload.data.populated

(***************************************************************************)
(* C21: while the session is open, a read_event call takes exactly the     *)
(* oldest message of the inbound queue and leaves the messages behind it   *)
(* queued; the reader adds each text frame at the end of the queue; and    *)
(* the queue changes in no other way unless the caller drops the Client,   *)
(* so no text frame is lost, duplicated or reordered on its way to the     *)
(* caller.                                                                 *)
(***************************************************************************)
C21_InboundFifo ==
    [][~SessionClosed
         => /\ read_event
                 => /\ read_rx # <<>>
                    /\ taken' = Head(read_rx)
                    /\ read_rx' = Tail(read_rx)
            /\ read_rx' # read_rx
                 => \/ read_event
                    \/ DropClient
                    \/ \E m \in Messages :
                          ReaderForward(m) /\ read_rx' = Append(read_rx, m)]_vars

(***************************************************************************)
(* C22: the step in which the reader terminates leaves the inbound queue   *)
(* as it is; after it, every read_event call that finds a message buffered *)
(* takes the oldest one and leaves the others queued for the next calls;   *)
(* and read_event meets the closed channel only once the queue is empty.   *)
(***************************************************************************)
C22_BufferedSurviveClosure ==
    [][/\ (reader = "running" /\ reader' # "running") => read_rx' = read_rx
       /\ (reader # "running" /\ read_rx # <<>> /\ read_event)
            => /\ taken' = Head(read_rx)
               /\ read_rx' = Tail(read_rx)
       /\ ReadEventClosed => read_rx = <<>>]_vars

(***************************************************************************)
(* C23: the payload of every event read_event returns converts to an       *)
(* Event: the conversion names a member of the Event enumeration, the one  *)
(* with the name of the payload's variant, and no other Payload variant    *)
(* converts to the same Event.                                             *)
(***************************************************************************)
C23_EventOfPayload ==
    result.kind = "Some"
        => /\ Event_from(result.event.payload.variant) \in Event
           /\ Event_from(result.event.payload.variant)
                = result.event.payload.variant
           /\ \A a \in Payload_arms :
                 a[2] # result.event.payload.variant
                   => Event_from(a[2]) # Event_from(result.event.payload.variant)

====
